---------------------------- MODULE Spec2Model ----------------------------
(***************************************************************************)
(* A model of zoom_batch_downloader.py.  The script is one sequential      *)
(* control flow; the model follows it routine by routine:                  *)
(*                                                                         *)
(*   get_meeting_uuids                 the 30-day query windows            *)
(*   get_meetings / download_recordings  the per-meeting fetch, its skips  *)
(*                                     and its fatal errors                *)
(*   download_recordings_from_meetings the topic allow-list                *)
(*   download_recording_file / create_path                                 *)
(*                                     naming, probing, skip, delete,      *)
(*                                     transfer to '<dest>.tmp', rename    *)
(*   process_videos                    the silence log parser              *)
(*                                                                         *)
(* Each routine has its own variables and its own specification; while one *)
(* routine is checked the variables of the others are parked.              *)
(***************************************************************************)
EXTENDS Integers, Sequences, FiniteSets, TLC

VARIABLES
    \* get_meeting_uuids
    start_date, end_date, local_start_date, queries, wpc,
    \* process_videos
    log, start, end, cut_segments, segment_lines, spc,
    \* download_recordings, get_meetings
    users_left, fetched, meetings, SKIPPED_MEETINGS, skipped_base, download_calls, fpc,
    \* download_recordings_from_meetings, the topic filter
    TOPICS, meeting_topic, processed, tpc,
    \* download_recording_file and its caller
    CONFIG, files, dirs, file_count, total_size, skipped_count, call, calls_made,
    named, fresh, dpc

wvars == <<start_date, end_date, local_start_date, queries, wpc>>

svars == <<log, start, end, cut_segments, segment_lines, spc>>

fvars == <<users_left, fetched, meetings, SKIPPED_MEETINGS, skipped_base, download_calls, fpc>>

tvars == <<TOPICS, meeting_topic, processed, tpc>>

dvars == <<CONFIG, files, dirs, file_count, total_size, skipped_count, call, calls_made,
           named, fresh, dpc>>

vars == <<wvars, svars, fvars, tvars, dvars>>

\* A step of one routine leaves the variables of the others alone.
OnlyWindows == UNCHANGED <<svars, fvars, tvars, dvars>>

OnlySilence == UNCHANGED <<wvars, fvars, tvars, dvars>>

OnlyFetch == UNCHANGED <<wvars, svars, tvars, dvars>>

OnlyTopics == UNCHANGED <<wvars, svars, fvars, dvars>>

OnlyDownload == UNCHANGED <<wvars, svars, fvars, tvars>>

Min(a, b) == IF a <= b THEN a ELSE b

Abs(a) == IF a < 0 THEN -a ELSE a

(***************************************************************************)
(* get_meeting_uuids (lines 173-198).  Dates are day numbers: main builds  *)
(* both ends of the range at midnight, and date_to_str keeps only the day. *)
(* A query is the pair <<from, to>> formatted into the url at line 187.    *)
(***************************************************************************)

\* The largest day number of a range.
MaxDay == 64

\* timedelta(days=29), line 177.
delta == 29

InitWindows ==
    /\ start_date \in 0..MaxDay
    /\ end_date \in 0..MaxDay
    /\ local_start_date = start_date
    /\ queries = <<>>
    /\ wpc = "scan"

ParkedWindows ==
    /\ start_date = 0
    /\ end_date = 0
    /\ local_start_date = 0
    /\ queries = <<>>
    /\ wpc = "parked"

\* line 195
next_local_start_date_same_day(local_end_date) == local_end_date

next_local_start_date(local_end_date) == local_end_date + 1

\* One iteration of the while loop, lines 182-196.
ScanWindow ==
    /\ wpc = "scan"
    /\ local_start_date <= end_date
    /\ LET local_end_date == Min(local_start_date + delta, end_date)
       IN  /\ queries' = Append(queries, <<local_start_date, local_end_date>>)
           /\ local_start_date' = next_local_start_date(local_end_date)
    /\ UNCHANGED <<start_date, end_date, wpc>>
    /\ OnlyWindows

\* The loop condition fails: line 198 returns.
ScanDone ==
    /\ wpc = "scan"
    /\ ~(local_start_date <= end_date)
    /\ wpc' = "done"
    /\ UNCHANGED <<start_date, end_date, local_start_date, queries>>
    /\ OnlyWindows

NextWindows == ScanWindow \/ ScanDone

\* The days a query covers.
Days(q) == q[1]..q[2]

\* The queries issued so far tile [start_date, local_start_date - 1].
Tiling ==
    /\ \A i \in 1..Len(queries) :
          /\ queries[i][1] <= queries[i][2]
          /\ queries[i][2] - queries[i][1] + 1 <= 30
          /\ queries[i][1] = (IF i = 1 THEN start_date ELSE queries[i - 1][2] + 1)
    /\ local_start_date =
          (IF queries = <<>> THEN start_date ELSE queries[Len(queries)][2] + 1)

\* C7: for every range with from <= to, get_meeting_uuids terminates (the
\* loop runs at most once per 30 days of the range and then returns) and its
\* queries, in chronological order, each span at most 30 days inclusive, the
\* first starts at from, each next starts the day after the previous one
\* ends, and the last ends at to: their union is exactly [from, to], with no
\* gap and no overlap.
C7_WindowsPartitionRange ==
    start_date <= end_date =>
        /\ Tiling
        /\ Len(queries) <= (end_date - start_date) \div 30 + 1
        /\ local_start_date <= end_date + 1
        /\ wpc = "done" =>
              /\ queries # <<>>
              /\ queries[Len(queries)][2] = end_date
              /\ UNION {Days(queries[i]) : i \in 1..Len(queries)} = start_date..end_date
              /\ \A i, j \in 1..Len(queries) :
                    i # j => Days(queries[i]) \cap Days(queries[j]) = {}

\* A range of more than 60 days has been scanned to its end in three queries.
C7_Witness ==
    /\ wpc = "done"
    /\ end_date - start_date >= 60
    /\ Len(queries) = 3


(***************************************************************************)
(* process_videos, the parser of the silence-detection log (lines          *)
(* 361-374).  A line is what the parser reads of it: whether it holds      *)
(* "[silencedetect @", which marker it holds, and the number after the     *)
(* colon.  None is <<>> and a number n is <<n>>.  log is the lines read so *)
(* far; segment_lines[k] is the number of the line that appended           *)
(* cut_segments[k].                                                        *)
(***************************************************************************)

\* The longest log.
MaxLines == 4

\* The largest time stamp of a marker.
MaxTime == 2

LogLines ==
    [tagged : {TRUE}, marker : {"silence_start", "silence_end"}, t : 0..MaxTime]
        \cup [tagged : {TRUE}, marker : {"none"}, t : {0}]
        \cup [tagged : {FALSE}, marker : {"silence_start", "silence_end"}, t : {0}]

None == <<>>

InitSilence ==
    /\ log = <<>>
    /\ start = None
    /\ end = None
    /\ cut_segments = <<>>
    /\ segment_lines = <<>>
    /\ spc = "read"

ParkedSilence ==
    /\ log = <<>>
    /\ start = None
    /\ end = None
    /\ cut_segments = <<>>
    /\ segment_lines = <<>>
    /\ spc = "parked"

\* lines 373-374 left out: the start stays pending after its segment.
start_after_segment_kept(s) == s

\* lines 373-374
start_after_segment(s) == None

\* One iteration of the for loop over the lines, lines 365-374.
ReadLine(line) ==
    /\ spc = "read"
    /\ Len(log) < MaxLines
    /\ log' = Append(log, line)
    /\ IF line.tagged /\ line.marker = "silence_start"
       THEN /\ start' = <<line.t>>
            /\ UNCHANGED <<end, cut_segments, segment_lines>>
       ELSE IF line.tagged /\ line.marker = "silence_end"
       THEN IF start # None /\ line.t > start[1]
            THEN /\ cut_segments' = Append(cut_segments,
                        [start |-> start[1], end |-> line.t, name |-> ""])
                 /\ segment_lines' = Append(segment_lines, Len(log) + 1)
                 /\ start' = start_after_segment(start)
                 /\ end' = None
            ELSE /\ end' = <<line.t>>
                 /\ UNCHANGED <<start, cut_segments, segment_lines>>
       ELSE UNCHANGED <<start, end, cut_segments, segment_lines>>
    /\ UNCHANGED spc
    /\ OnlySilence

\* The log is exhausted: the cut list is written, lines 376-383.
EndOfLog ==
    /\ spc = "read"
    /\ spc' = "written"
    /\ UNCHANGED <<log, start, end, cut_segments, segment_lines>>
    /\ OnlySilence

NextSilence ==
    \/ \E line \in LogLines : ReadLine(line)
    \/ EndOfLog

IsStart(l) == l.tagged /\ l.marker = "silence_start"

IsEnd(l) == l.tagged /\ l.marker = "silence_end"

\* The silence-start line that line e of the log pairs with: the most recent
\* one before e, if no silence-end between them has consumed it already.
\* 0 when there is none.
PendingStart(e) ==
    LET starts == {s \in 1..(e - 1) : IsStart(log[s])}
        s == CHOOSE x \in starts : \A y \in starts : y <= x
    IN  IF starts = {} THEN 0
        ELSE IF \E c \in (s + 1)..(e - 1) : IsEnd(log[c]) /\ log[c].t > log[s].t
        THEN 0
        ELSE s

\* The silence-end lines that close a segment.
ClosingLines ==
    {e \in 1..Len(log) :
        /\ IsEnd(log[e])
        /\ PendingStart(e) # 0
        /\ log[e].t > log[PendingStart(e)].t}

\* C10: a segment {start, end, name: ""} is emitted only for a silence-end
\* that follows a silence-start with end > start; it pairs the end with the
\* most recent silence-start, which no earlier segment has consumed; every
\* such silence-end emits one; a silence-end with no pending start emits
\* nothing; and the segments are in log order.
C10_SegmentsPairStartEnd ==
    /\ Len(segment_lines) = Len(cut_segments)
    /\ {segment_lines[k] : k \in 1..Len(segment_lines)} = ClosingLines
    /\ \A k \in 1..Len(cut_segments) :
          /\ k > 1 => segment_lines[k - 1] < segment_lines[k]
          /\ segment_lines[k] \in ClosingLines
             => cut_segments[k] =
                   [start |-> log[PendingStart(segment_lines[k])].t,
                    end |-> log[segment_lines[k]].t,
                    name |-> ""]
    /\ \A j, k \in 1..Len(cut_segments) :
          (j # k /\ segment_lines[j] \in ClosingLines /\ segment_lines[k] \in ClosingLines)
             => PendingStart(segment_lines[j]) # PendingStart(segment_lines[k])

\* A log of a silence-start, a silence-end that closes it, and a second
\* silence-end with no pending start has been read to its end: one segment.
C10_Witness ==
    /\ spc = "written"
    /\ Len(log) = 3
    /\ IsStart(log[1]) /\ IsEnd(log[2]) /\ IsEnd(log[3])
    /\ log[3].t > log[1].t
    /\ cut_segments = <<[start |-> log[1].t, end |-> log[2].t, name |-> ""]>>

(***************************************************************************)
(* download_recordings (lines 134-159) and get_meetings (lines 200-222).   *)
(* A meeting reference is <<uuid, topic>>.  The outcome of client.get is   *)
(* the meeting record, or an exception e, of which the handler reads       *)
(* whether "3301" and whether "404" occur in str(e).  fetched is the       *)
(* references the running call of get_meetings has fetched, each with its  *)
(* outcome; skipped_base is the length of SKIPPED_MEETINGS when that call  *)
(* began; download_calls counts the meetings handed to                     *)
(* download_recordings_from_meetings.                                      *)
(***************************************************************************)

\* The longest meeting_data list of one user.
MaxRefs == 2

\* The users of the run, in order (get_users).
Users == <<"ann@example.org", "bob@example.org">>

Refs == {<<"uuid1", "Standup">>, <<"uuid2", "Sync">>}

Outcomes ==
    [ok : {TRUE}, has3301 : {FALSE}, has404 : {FALSE}]
        \cup [ok : {FALSE}, has3301 : BOOLEAN, has404 : BOOLEAN]

InitFetch ==
    /\ users_left = Users
    /\ fetched = <<>>
    /\ meetings = <<>>
    /\ SKIPPED_MEETINGS = <<>>
    /\ skipped_base = 0
    /\ download_calls = 0
    /\ fpc = "users"

ParkedFetch ==
    /\ users_left = <<>>
    /\ fetched = <<>>
    /\ meetings = <<>>
    /\ SKIPPED_MEETINGS = <<>>
    /\ skipped_base = 0
    /\ download_calls = 0
    /\ fpc = "parked"

\* The handler without its elif "404" branch.
except_branch_without_404(e) ==
    IF e.has3301 THEN "Still Processing" ELSE "raise"

\* The handler with a catch-all in place of raise e.
except_branch_catch_all(e) ==
    IF e.has3301 THEN "Still Processing" ELSE "Not Found / 404"

\* The except clause, lines 211-220: the reason appended to SKIPPED_MEETINGS,
\* or "raise".
except_branch(e) ==
    IF e.has3301 THEN "Still Processing"
    ELSE IF e.has404 THEN "Not Found / 404"
    ELSE "raise"

\* The loop of download_recordings takes the next user and calls
\* get_meetings, lines 137-149 and 201.
StartUser ==
    /\ fpc = "users"
    /\ users_left # <<>>
    /\ fetched' = <<>>
    /\ meetings' = <<>>
    /\ skipped_base' = Len(SKIPPED_MEETINGS)
    /\ fpc' = "fetch"
    /\ UNCHANGED <<users_left, SKIPPED_MEETINGS, download_calls>>
    /\ OnlyFetch

\* One iteration of the loop of get_meetings, lines 206-220.
FetchMeeting(ref, outcome) ==
    /\ fpc = "fetch"
    /\ Len(fetched) < MaxRefs
    /\ fetched' = Append(fetched, [ref |-> ref, outcome |-> outcome])
    /\ IF outcome.ok
       THEN /\ meetings' = Append(meetings, ref[1])
            /\ UNCHANGED <<SKIPPED_MEETINGS, fpc>>
       ELSE IF except_branch(outcome) = "raise"
       THEN /\ fpc' = "aborted"
            /\ UNCHANGED <<meetings, SKIPPED_MEETINGS>>
       ELSE /\ SKIPPED_MEETINGS' = Append(SKIPPED_MEETINGS,
                    [topic |-> ref[2], reason |-> except_branch(outcome)])
            /\ UNCHANGED <<meetings, fpc>>
    /\ UNCHANGED <<users_left, skipped_base, download_calls>>
    /\ OnlyFetch

\* meeting_data is exhausted: get_meetings returns, line 222.
ReturnMeetings ==
    /\ fpc = "fetch"
    /\ fpc' = "download"
    /\ UNCHANGED <<users_left, fetched, meetings, SKIPPED_MEETINGS, skipped_base, download_calls>>
    /\ OnlyFetch

\* download_recordings_from_meetings runs over the returned meetings, and
\* the loop of download_recordings goes on, lines 150-157.
DownloadFromMeetings ==
    /\ fpc = "download"
    /\ download_calls' = download_calls + Len(meetings)
    /\ users_left' = Tail(users_left)
    /\ fpc' = "users"
    /\ UNCHANGED <<fetched, meetings, SKIPPED_MEETINGS, skipped_base>>
    /\ OnlyFetch

\* No user is left: download_recordings returns, line 159.
ReturnCounts ==
    /\ fpc = "users"
    /\ users_left = <<>>
    /\ fpc' = "done"
    /\ UNCHANGED <<users_left, fetched, meetings, SKIPPED_MEETINGS, skipped_base, download_calls>>
    /\ OnlyFetch

NextFetch ==
    \/ StartUser
    \/ \E ref \in Refs, outcome \in Outcomes : FetchMeeting(ref, outcome)
    \/ ReturnMeetings
    \/ DownloadFromMeetings
    \/ ReturnCounts

\* A fetch that failed with 3301 or with 404 in its error.
Expected(f) == ~f.outcome.ok /\ (f.outcome.has3301 \/ f.outcome.has404)

\* A fetch that failed with neither.
Fatal(f) == ~f.outcome.ok /\ ~f.outcome.has3301 /\ ~f.outcome.has404

RECURSIVE FetchedMeetings(_)
FetchedMeetings(fs) ==
    IF fs = <<>> THEN <<>>
    ELSE (IF Head(fs).outcome.ok THEN <<Head(fs).ref[1]>> ELSE <<>>)
            \o FetchedMeetings(Tail(fs))

RECURSIVE SkippedTopics(_)
SkippedTopics(fs) ==
    IF fs = <<>> THEN <<>>
    ELSE (IF Expected(Head(fs)) THEN <<Head(fs)>> ELSE <<>>)
            \o SkippedTopics(Tail(fs))

\* C5: in get_meetings a fetch that fails with 3301 or 404 in its error
\* never aborts the batch; each such fetch has appended exactly one entry
\* for its meeting to SKIPPED_MEETINGS, 'Still Processing' for an error with
\* 3301 and 'Not Found' for one with 404 and no 3301; every reference is
\* fetched once; and the list returned is the successfully fetched meetings
\* in reference order.
C5_ExpectedErrorsAreSkipped ==
    fpc \in {"fetch", "download", "aborted"} =>
        LET sk == SkippedTopics(fetched)
            new == SubSeq(SKIPPED_MEETINGS, skipped_base + 1, Len(SKIPPED_MEETINGS))
        IN  /\ meetings = FetchedMeetings(fetched)
            /\ Len(new) = Len(sk)
            /\ \A k \in 1..Len(sk) :
                  /\ new[k].topic = sk[k].ref[2]
                  /\ sk[k].outcome.has3301 => new[k].reason = "Still Processing"
                  /\ (sk[k].outcome.has404 /\ ~sk[k].outcome.has3301)
                        => new[k].reason = "Not Found / 404"
            /\ \A i \in 1..Len(fetched) :
                  Expected(fetched[i]) => ~(fpc = "aborted" /\ i = Len(fetched))
            /\ fpc = "aborted" => Len(fetched) > 0

\* get_meetings has returned the second of two meetings after the first
\* failed with 3301, and a 404 of the user before is in the report too.
C5_Witness ==
    /\ fpc = "download"
    /\ Len(fetched) = 2
    /\ fetched[1].outcome = [ok |-> FALSE, has3301 |-> TRUE, has404 |-> FALSE]
    /\ fetched[2].outcome.ok
    /\ meetings = <<fetched[2].ref[1]>>
    /\ Len(SKIPPED_MEETINGS) = 2
    /\ SKIPPED_MEETINGS[1].reason = "Not Found / 404"
    /\ SKIPPED_MEETINGS[2].reason = "Still Processing"

\* C6: a fetch that fails with neither 3301 nor 404 in its error aborts the
\* run: the step adds nothing to SKIPPED_MEETINGS or to the meetings, and
\* once the run is aborted no meeting is fetched and no file is downloaded.
C6_OtherErrorsAbortTheRun ==
    [][/\ (fpc = "fetch" /\ fetched' # fetched /\ Fatal(fetched'[Len(fetched')]))
            => /\ fpc' = "aborted"
               /\ SKIPPED_MEETINGS' = SKIPPED_MEETINGS
               /\ meetings' = meetings
               /\ download_calls' = download_calls
       /\ fpc = "aborted"
            => /\ fpc' = "aborted"
               /\ fetched' = fetched
               /\ download_calls' = download_calls
               /\ SKIPPED_MEETINGS' = SKIPPED_MEETINGS]_vars

\* The second user's fetch failed fatally after the first user's meetings
\* were downloaded and one of the second user's was skipped.
C6_Witness ==
    /\ fpc = "aborted"
    /\ Len(users_left) = 1
    /\ download_calls > 0
    /\ Len(fetched) = 2
    /\ Expected(fetched[1])
    /\ Fatal(fetched[2])
    /\ Len(SKIPPED_MEETINGS) = skipped_base + 1

(***************************************************************************)
(* The topic filter of download_recordings_from_meetings (lines 227-229).  *)
(* A topic is a sequence of characters.  utils.slugify is not among the    *)
(* sources; it is modelled from its description: lower-cased, runs of      *)
(* separators unified to one hyphen, no separator at either end.           *)
(* meeting_topic is the topic of the meeting the loop is looking at and    *)
(* processed says whether the loop goes on to its recording files.         *)
(***************************************************************************)

\* The longest topic and the longest allow-list entry.
MaxLen == 3

Chars == {"W", "w", " ", "-"}

Strings == UNION {[1..n -> Chars] : n \in 0..MaxLen}

Lower(c) == IF c = "W" THEN "w" ELSE c

IsSeparator(c) == c \in {" ", "-"}

RECURSIVE UnifySeparators(_)
UnifySeparators(str) ==
    IF str = <<>> THEN <<>>
    ELSE IF IsSeparator(Head(str))
    THEN IF Tail(str) # <<>> /\ IsSeparator(Head(Tail(str)))
         THEN UnifySeparators(Tail(str))
         ELSE <<"-">> \o UnifySeparators(Tail(str))
    ELSE <<Head(str)>> \o UnifySeparators(Tail(str))

RECURSIVE Strip(_)
Strip(str) ==
    IF str = <<>> THEN <<>>
    ELSE IF Head(str) = "-" THEN Strip(Tail(str))
    ELSE IF str[Len(str)] = "-" THEN Strip(SubSeq(str, 1, Len(str) - 1))
    ELSE str

slugify(str) == Strip(UnifySeparators([i \in 1..Len(str) |-> Lower(str[i])]))

InitTopics ==
    /\ TOPICS \in {{}} \cup {{e} : e \in Strings}
    /\ meeting_topic = <<>>
    /\ processed = FALSE
    /\ tpc = "next"

ParkedTopics ==
    /\ TOPICS = {}
    /\ meeting_topic = <<>>
    /\ processed = FALSE
    /\ tpc = "parked"

\* The filter with the allow-list entries compared to the literal topic only.
skip_meeting_literal_only(topic) ==
    TOPICS # {} /\ topic \notin TOPICS

\* The condition of the continue, line 228.
skip_meeting(topic) ==
    TOPICS # {} /\ topic \notin TOPICS /\ slugify(topic) \notin TOPICS

\* The loop takes the next meeting and tests its topic, lines 227-229.
ConsiderMeeting(topic) ==
    /\ tpc = "next"
    /\ meeting_topic' = topic
    /\ processed' = ~skip_meeting(topic)
    /\ tpc' = "loop"
    /\ UNCHANGED TOPICS
    /\ OnlyTopics

\* The iteration ends, by the continue of line 229 or after the meeting's
\* recording files.
EndIteration ==
    /\ tpc = "loop"
    /\ meeting_topic' = <<>>
    /\ processed' = FALSE
    /\ tpc' = "next"
    /\ UNCHANGED TOPICS
    /\ OnlyTopics

NextTopics ==
    \/ \E topic \in Strings : ConsiderMeeting(topic)
    \/ EndIteration

\* "Weekly Sync" and "weekly-sync", in the characters of the model.
WeeklySync == <<"W", " ", "w">>

weekly_sync == <<"w", "-", "w">>

\* C9 as stated: with the filter set to {"Weekly Sync"} a meeting with topic
\* "weekly-sync" is included.
C9_SlugTopicMatchesLiteralEntry ==
    (tpc = "loop" /\ TOPICS = {WeeklySync} /\ meeting_topic = weekly_sync) => processed

\* C9 as amended: with a non-empty allow-list a meeting is processed if and
\* only if its topic, or the slug of its topic, is an entry of the list; the
\* entries themselves are never slugified.  With the filter set to
\* {"weekly-sync"} a meeting with topic "Weekly Sync" is included, with the
\* filter set to {"Weekly Sync"} a meeting with topic "weekly-sync" is
\* excluded, and with an empty allow-list every meeting is processed.
C9_TopicOrItsSlugIsAnEntry ==
    tpc = "loop" =>
        /\ TOPICS = {} => processed
        /\ TOPICS # {} =>
              (processed <=> \E e \in TOPICS :
                                e = meeting_topic \/ e = slugify(meeting_topic))
        /\ (TOPICS = {weekly_sync} /\ meeting_topic = WeeklySync) => processed
        /\ (TOPICS = {WeeklySync} /\ meeting_topic = weekly_sync) => ~processed

\* The filter is {"weekly-sync"} and a meeting with topic "Weekly Sync" has
\* been let through.
C9_Witness ==
    /\ tpc = "loop"
    /\ TOPICS = {weekly_sync}
    /\ meeting_topic = WeeklySync
    /\ processed

(***************************************************************************)
(* download_recording_file (lines 268-313), create_path (lines 315-324)    *)
(* and the counting of its result by download_recordings_from_meetings     *)
(* (lines 257-263), in topic-name mode: the file name is '{topic}.{ext}'   *)
(* (line 246), already free of the characters line 270 removes.            *)
(*                                                                         *)
(* A path is the sequence of its components below host_folder.  A          *)
(* component is <<"dir", topic, 0>> (the folder named after the topic),    *)
(* <<"name", topic, i>> (the file name, '{base}{ext}' for i = 0 and        *)
(* '{base}_{i}{ext}' for i > 0) or <<"tmp", topic, i>> (that name with     *)
(* '.tmp' appended).  files maps the path of every file of the output tree *)
(* to its size and to made_for, the file_size of the call of this run      *)
(* whose transfer wrote it (-1 for a file older than the run); dirs is the *)
(* folders.                                                                *)
(*                                                                         *)
(* call holds the running (or last) call: its arguments, its locals        *)
(* file_name (as the suffix i) and file_path, and what it did: before is   *)
(* the size of the file that the first create_path (line 281) found at the *)
(* destination, None if there was none; removed says that line 298 ran;    *)
(* result is how far the call got.  named[t] counts the calls so far, not  *)
(* below the minimum size, whose file name was made of topic t; fresh says *)
(* that the run began on an empty tree.                                    *)
(*                                                                         *)
(* utils.download_with_progress and client.do_with_token are not among the *)
(* sources.  The transfer is modelled from its description: it writes the  *)
(* received bytes to the path it is given, then compares the size of what  *)
(* it wrote with the expected size and raises beyond the tolerance.        *)
(***************************************************************************)

\* The most calls of download_recording_file in one run.
MaxCalls == 3

\* The largest CONFIG.MIN_FILE_SIZE, in megabytes.
MaxMinFileSize == 1

\* The largest CONFIG.FILE_SIZE_MISMATCH_TOLERANCE, in bytes.
MaxTolerance == 1

FileTopics == {"Standup"}

MB == 1024 * 1024

\* The values of file_size: around the one-megabyte threshold, and apart by
\* less than, exactly and more than the tolerance.
FileSizes == {MB - 1, MB, MB + 1, MB + MaxTolerance + 1}

\* The sizes a file under transfer goes through.
WrittenSizes == {0} \cup FileSizes

Configs ==
    [GROUP_BY_TOPIC : BOOLEAN,
     GROUP_BY_RECORDING : BOOLEAN,
     MIN_FILE_SIZE : 0..MaxMinFileSize,
     FILE_SIZE_MISMATCH_TOLERANCE : 0..MaxTolerance]

TopicDir(topic) == <<"dir", topic, 0>>

\* '{base_name}{ext}' for i = 0, '{base_name}_{i}{ext}' (line 290) for i > 0.
Name(topic, i) == <<"name", topic, i>>

IsFinal(path) == path[Len(path)][1] = "name"

Put(fs, path, entry) ==
    [q \in DOMAIN fs \cup {path} |-> IF q = path THEN entry ELSE fs[q]]

Remove(fs, path) == [q \in DOMAIN fs \ {path} |-> fs[q]]

\* lines 316-321
folder_path(file_name, topic, recording_name) ==
    (IF CONFIG.GROUP_BY_TOPIC THEN <<TopicDir(topic)>> ELSE <<>>)
        \o (IF CONFIG.GROUP_BY_RECORDING THEN <<recording_name>> ELSE <<>>)

\* The path create_path returns, line 324.
create_path(file_name, topic, recording_name) ==
    folder_path(file_name, topic, recording_name) \o <<file_name>>

\* os.makedirs(folder_path, exist_ok=True), line 323.
makedirs(ds, folder) == ds \cup {SubSeq(folder, 1, k) : k \in 1..Len(folder)}

\* os.path.exists
exists(fs, ds, path) == path \in DOMAIN fs \/ path \in ds

\* The loop of lines 286-289: the first i >= from with no
\* host_folder/'{base_name}_{i}{ext}'.
RECURSIVE probe(_, _, _, _)
probe(fs, ds, topic, i) ==
    IF exists(fs, ds, <<Name(topic, i)>>) THEN probe(fs, ds, topic, i + 1) ELSE i

\* The transfer writes to the destination itself.
tmp_file_path_is_file_path(file_path) == file_path

\* line 303
tmp_file_path(file_path) ==
    LET n == Len(file_path)
    IN  SubSeq(file_path, 1, n - 1) \o <<<<"tmp", file_path[n][2], file_path[n][3]>>>>

\* The threshold in kilobytes.
min_bytes_in_kilobytes == CONFIG.MIN_FILE_SIZE * 1024

\* line 273
min_bytes == CONFIG.MIN_FILE_SIZE * 1024 * 1024

Within(a, b) == Abs(a - b) <= CONFIG.FILE_SIZE_MISMATCH_TOLERANCE

NoCall ==
    [topic |-> "", file_size |-> 0, suffix |-> 0, file_path |-> <<>>,
     before |-> None, removed |-> FALSE, result |-> "none"]

\* The trees a run may start on: empty, or holding, for some topics, a file
\* of some size where this configuration puts the topic's recording.
InitialTrees ==
    LET held == [FileTopics -> {-1} \cup FileSizes]
        path(t) == create_path(Name(t, 0), t, Name(t, 0))
    IN  {[fs |-> [p \in {path(t) : t \in {u \in FileTopics : h[u] # -1}} |->
                     [size |-> h[(CHOOSE t \in FileTopics : path(t) = p)],
                      made_for |-> -1]],
          ds |-> UNION {makedirs({}, folder_path(Name(t, 0), t, Name(t, 0))) :
                           t \in {u \in FileTopics : h[u] # -1}}] : h \in held}

InitDownload ==
    /\ CONFIG \in Configs
    /\ \E tree \in InitialTrees :
          /\ files = tree.fs
          /\ dirs = tree.ds
          /\ fresh = (DOMAIN tree.fs = {})
    /\ file_count = 0
    /\ total_size = 0
    /\ skipped_count = 0
    /\ call = NoCall
    /\ calls_made = 0
    /\ named = [t \in FileTopics |-> 0]
    /\ dpc = "idle"

ParkedDownload ==
    /\ CONFIG = [GROUP_BY_TOPIC |-> FALSE, GROUP_BY_RECORDING |-> FALSE,
                 MIN_FILE_SIZE |-> 0, FILE_SIZE_MISMATCH_TOLERANCE |-> 0]
    /\ files = <<>>
    /\ dirs = {}
    /\ fresh = TRUE
    /\ file_count = 0
    /\ total_size = 0
    /\ skipped_count = 0
    /\ call = NoCall
    /\ calls_made = 0
    /\ named = <<>>
    /\ dpc = "parked"

\* download_recording_file is called and runs as far as line 303, or to one
\* of its two return False, which line 263 counts.
CallDownload(topic, file_size) ==
    /\ dpc = "idle"
    /\ calls_made < MaxCalls
    /\ calls_made' = calls_made + 1
    /\ IF file_size < min_bytes
       THEN \* lines 273-275
            /\ skipped_count' = skipped_count + 1
            /\ call' = [NoCall EXCEPT !.topic = topic, !.file_size = file_size,
                                      !.result = "small"]
            /\ UNCHANGED <<files, dirs, named, dpc>>
       ELSE LET name0 == Name(topic, 0)
                \* line 281
                path0 == create_path(name0, topic, name0)
                dirs0 == makedirs(dirs, folder_path(name0, topic, name0))
                \* lines 284-291
                taken == exists(files, dirs0, path0)
                i == IF taken THEN probe(files, dirs0, topic, 1) ELSE 0
                name == Name(topic, i)
                path == create_path(name, topic, name)
                dirs1 == IF taken
                         THEN makedirs(dirs0, folder_path(name, topic, name))
                         ELSE dirs0
                running == [topic |-> topic, file_size |-> file_size, suffix |-> i,
                            file_path |-> path,
                            before |-> IF path0 \in DOMAIN files
                                       THEN <<files[path0].size>> ELSE None,
                            removed |-> FALSE, result |-> "none"]
            IN  /\ dirs' = dirs1
                /\ named' = [named EXCEPT ![topic] = @ + 1]
                /\ IF path \in DOMAIN files /\ Within(files[path].size, file_size)
                   THEN \* lines 293-295
                        /\ skipped_count' = skipped_count + 1
                        /\ call' = [running EXCEPT !.result = "existing"]
                        /\ UNCHANGED <<files, dpc>>
                   ELSE \* lines 296-303
                        /\ files' = IF path \in DOMAIN files
                                    THEN Remove(files, path) ELSE files
                        /\ call' = [running EXCEPT !.result = "transfer",
                                                   !.removed = path \in DOMAIN files]
                        /\ dpc' = "transfer"
                        /\ UNCHANGED skipped_count
    /\ UNCHANGED <<CONFIG, file_count, total_size, fresh>>
    /\ OnlyDownload

\* The transfer writes what it has received so far to the path it was given.
TransferWrite(n) ==
    /\ dpc = "transfer"
    /\ LET tmp == tmp_file_path(call.file_path)
       IN  /\ tmp \in DOMAIN files => files[tmp].size < n
           /\ files' = Put(files, tmp, [size |-> n, made_for |-> call.file_size])
    /\ UNCHANGED <<CONFIG, dirs, file_count, total_size, skipped_count, call,
                   calls_made, named, fresh, dpc>>
    /\ OnlyDownload

\* The transfer ends and the size of what it wrote is compared with
\* file_size: beyond the tolerance it raises, which ends the run.
TransferEnd ==
    /\ dpc = "transfer"
    /\ LET tmp == tmp_file_path(call.file_path)
       IN  /\ tmp \in DOMAIN files
           /\ IF Within(files[tmp].size, call.file_size)
              THEN /\ dpc' = "rename"
                   /\ UNCHANGED call
              ELSE /\ dpc' = "aborted"
                   /\ call' = [call EXCEPT !.result = "failed"]
    /\ UNCHANGED <<CONFIG, files, dirs, file_count, total_size, skipped_count,
                   calls_made, named, fresh>>
    /\ OnlyDownload

\* The transfer raises (no token, a network error), or the run is
\* interrupted or killed before the rename: the run ends there.
TransferRaises ==
    /\ dpc \in {"transfer", "rename"}
    /\ dpc' = "aborted"
    /\ call' = [call EXCEPT !.result = "failed"]
    /\ UNCHANGED <<CONFIG, files, dirs, file_count, total_size, skipped_count,
                   calls_made, named, fresh>>
    /\ OnlyDownload

\* os.rename and return True, lines 311-313, counted by lines 260-261.
RenameAndReturn ==
    /\ dpc = "rename"
    /\ LET tmp == tmp_file_path(call.file_path)
       IN  files' = Put(Remove(files, tmp), call.file_path, files[tmp])
    /\ total_size' = total_size + call.file_size
    /\ file_count' = file_count + 1
    /\ call' = [call EXCEPT !.result = "published"]
    /\ dpc' = "idle"
    /\ UNCHANGED <<CONFIG, dirs, skipped_count, calls_made, named, fresh>>
    /\ OnlyDownload

NextDownload ==
    \/ \E topic \in FileTopics, file_size \in FileSizes : CallDownload(topic, file_size)
    \/ \E n \in WrittenSizes : TransferWrite(n)
    \/ TransferEnd
    \/ TransferRaises
    \/ RenameAndReturn

\* C1: no file that this run created is at a final destination path with a
\* size beyond FILE_SIZE_MISMATCH_TOLERANCE of the file_size it was
\* transferred for, in any state, the interrupted and the failed included.
C1_FinalPathsHoldVerifiedFiles ==
    \A p \in DOMAIN files :
        (IsFinal(p) /\ files[p].made_for # -1)
            => Abs(files[p].size - files[p].made_for) <= CONFIG.FILE_SIZE_MISMATCH_TOLERANCE

\* The run ended in the middle of its second transfer: the first file is
\* in place, and the part of the second is at a '.tmp' path.
C1_Witness ==
    /\ dpc = "aborted"
    /\ \E p \in DOMAIN files : IsFinal(p) /\ files[p].made_for # -1
    /\ \E p \in DOMAIN files :
          /\ ~IsFinal(p)
          /\ ~Within(files[p].size, call.file_size)
    /\ call.file_path \notin DOMAIN files

\* The call was on a file not below the minimum size.
Attempted == call.result \notin {"none", "small"}

\* C2 as stated: a call on a file, not below the minimum size, whose
\* destination holds a file with a size within the tolerance of file_size
\* makes no transfer, removes nothing and returns False.
C2_MatchingFileIsSkipped ==
    (Attempted /\ call.before # None /\ Within(call.before[1], call.file_size))
        => (call.result = "existing" /\ ~call.removed)

\* C3 as stated: a call on a file, not below the minimum size, whose
\* destination holds a file with a size beyond the tolerance of file_size
\* removes that file and attempts the transfer to that same destination.
C3_MismatchingFileIsReplaced ==
    (Attempted /\ call.before # None /\ ~Within(call.before[1], call.file_size))
        => /\ call.removed
           /\ call.result \in {"transfer", "published", "failed"}
           /\ call.file_path =
                 create_path(Name(call.topic, 0), call.topic, Name(call.topic, 0))

\* C4 as stated: on a tree that held nothing, the k-th download of one
\* computed name is published under the suffix _(k-1) (none for the first),
\* and the k - 1 files published before it are still in place.
C4_SameNamesGetFreshSuffixes ==
    (fresh /\ dpc = "idle" /\ Attempted)
        => LET t == call.topic
               k == named[t]
           IN  /\ call.result = "published"
               /\ call.suffix = k - 1
               /\ \A j \in 0..(k - 1) :
                     create_path(Name(t, j), t, Name(t, j)) \in DOMAIN files

\* C8: a call on a file with file_size < m * 1024 * 1024, m the configured
\* minimum, creates no folder and no file, removes nothing, starts no
\* transfer, and is counted in skipped_count and not in file_count or
\* total_size.
C8_SmallFilesAreNeverWritten ==
    [][(calls_made' = calls_made + 1
            /\ call'.file_size < CONFIG.MIN_FILE_SIZE * 1024 * 1024)
        => /\ files' = files
           /\ dirs' = dirs
           /\ dpc' = "idle"
           /\ skipped_count' = skipped_count + 1
           /\ file_count' = file_count
           /\ total_size' = total_size]_vars

\* After one file was downloaded, a file one byte below a minimum of one
\* megabyte was skipped: one file counted, one skipped, one file on disk.
C8_Witness ==
    /\ CONFIG.MIN_FILE_SIZE = 1
    /\ call.result = "small"
    /\ call.file_size = MB - 1
    /\ file_count = 1
    /\ skipped_count = 1
    /\ total_size >= MB
    /\ Cardinality(DOMAIN files) = 1

(***************************************************************************)
(* The specifications.  Each starts one routine and parks the others.      *)
(***************************************************************************)

StartWindows ==
    InitWindows /\ ParkedSilence /\ ParkedFetch /\ ParkedTopics /\ ParkedDownload

StartSilence ==
    InitSilence /\ ParkedWindows /\ ParkedFetch /\ ParkedTopics /\ ParkedDownload

StartFetch ==
    InitFetch /\ ParkedWindows /\ ParkedSilence /\ ParkedTopics /\ ParkedDownload

StartTopics ==
    InitTopics /\ ParkedWindows /\ ParkedSilence /\ ParkedFetch /\ ParkedDownload

StartDownload ==
    InitDownload /\ ParkedWindows /\ ParkedSilence /\ ParkedFetch /\ ParkedTopics

SpecWindows == StartWindows /\ [][NextWindows]_vars

SpecSilence == StartSilence /\ [][NextSilence]_vars

SpecFetch == StartFetch /\ [][NextFetch]_vars

SpecTopics == StartTopics /\ [][NextTopics]_vars

SpecDownload == StartDownload /\ [][NextDownload]_vars

=============================================================================
